---- MODULE Spec2Model ----
(***************************************************************************)
(* Listing-tracker pipeline of spice-outreach: deal / job / hotel trackers *)
(* (routes/deal_tracker.py, routes/job_tracker.py, routes/hotel_tracker.py)*)
(* and the scheduled sweeps of scheduler_jobs.py.                          *)
(*                                                                         *)
(* The three tracker families live in disjoint tables and run the same     *)
(* scrape -> dedup -> filter -> persist -> notify code; `kind` selects the *)
(* family a behaviour is about.                                            *)
(*                                                                         *)
(* Abstractions (stated once, used everywhere):                            *)
(*  - a url is a record [head, tail, pad]: head is the text of the first   *)
(*    1000 characters of the stripped url ("" for the empty string), tail  *)
(*    identifies what follows beyond the 1000th character (0 = nothing),   *)
(*    pad says the raw text carries leading/trailing whitespace;           *)
(*  - a price text is a sequence of tokens (digits, ".", ",", " ", "Rs",   *)
(*    "lakh", "Lakh", "-");                                                *)
(*  - db.session is the SQLAlchemy session of the running request or       *)
(*    scheduler job: rows added and not yet committed (`pending`), and the *)
(*    `inactive` state a failed flush leaves until rollback() is called;   *)
(*    `dirty` says rows were flushed and the transaction holds them,       *)
(*    `expired` that a commit has expired the loaded objects;              *)
(*  - `mail` is the email subsystem (routes/email_sender.py and the daily  *)
(*    email job): the clock in hours, the MessageLog rows with status      *)
(*    'sent' counted per hour, the running batches. The specifications of  *)
(*    the message logs and of the Facebook leads keep the Contact and      *)
(*    MessageLog rows and the running sender in it;                        *)
(*  - `brochures` is the brochures table (routes/brochures.py) with the    *)
(*    requests in flight and the database backend of the deployment.       *)
(***************************************************************************)
EXTENDS Integers, Sequences, FiniteSets, TLC

VARIABLES kind, trackers, listings, web, now, edits, sess, sweep, last, mail, brochures

vars == <<kind, trackers, listings, web, now, edits, sess, sweep, last, mail, brochures>>

(* ------------------------------ bounds -------------------------------- *)

\* number of trackers of the family
MaxTrackers == 2
\* items on one scraped page
MaxItems == 2
\* handler invocations that take time (checks); caps `now`
MaxClock == 2
\* edit requests in one behaviour
MaxEdits == 1

(* --------------------------- small helpers ---------------------------- *)

\* a nullable column: None is <<>>, the value v is <<v>>
None == <<>>

Some(v) == <<v>>

\* Python truthiness of a nullable integer: None and 0 are falsy
truthy(x) == x # None /\ x[1] # 0

Range(s) == {s[i] : i \in 1..Len(s)}

SeqsUpTo(S, n) == UNION {[1..k -> S] : k \in 0..n}

RECURSIVE SetToSeq(_)
\* rows of a query without ORDER BY come back in primary-key order
SetToSeq(S) ==
    IF S = {} THEN <<>>
    ELSE LET m == CHOOSE x \in S : \A y \in S : x <= y
         IN <<m>> \o SetToSeq(S \ {m})

(* -------------------------------- urls -------------------------------- *)

Url(h, t, p) == [head |-> h, tail |-> t, pad |-> p]

\* str.strip()
strip(u) == [u EXCEPT !.pad = FALSE]

\* `not item_url`
IsEmptyUrl(u) == u.head = "" /\ u.tail = 0 /\ ~u.pad

\* item_url[:1000]
truncate1000(u) == [u EXCEPT !.tail = 0]

(* ------------------------------- prices ------------------------------- *)

Digits == {"0", "1", "2", "3", "4", "5", "6", "7", "8", "9"}

DigitVal(c) ==
    CASE c = "0" -> 0 [] c = "1" -> 1 [] c = "2" -> 2 [] c = "3" -> 3
      [] c = "4" -> 4 [] c = "5" -> 5 [] c = "6" -> 6 [] c = "7" -> 7
      [] c = "8" -> 8 [] c = "9" -> 9

RECURSIVE IntOf(_)
\* value of a run of digits (0 for the empty run)
IntOf(ds) ==
    IF ds = <<>> THEN 0
    ELSE 10 * IntOf(SubSeq(ds, 1, Len(ds) - 1)) + DigitVal(ds[Len(ds)])

RECURSIVE Pow10(_)
Pow10(n) == IF n = 0 THEN 1 ELSE 10 * Pow10(n - 1)

\* re.sub(r'[^\d.]', '', price_text)
sub_non_numeric(text) == SelectSeq(text, LAMBDA c : c \in Digits \cup {"."})

\* re.sub(r'[^\d]', '', price)
sub_non_digit(text) == SelectSeq(text, LAMBDA c : c \in Digits)

DotCount(s) == Cardinality({i \in 1..Len(s) : s[i] = "."})

\* float(numeric) succeeds: at most one dot and at least one digit
float_ok(numeric) == DotCount(numeric) <= 1 /\ \E i \in 1..Len(numeric) : numeric[i] \in Digits

DotAt(s) == IF DotCount(s) = 0 THEN Len(s) + 1 ELSE CHOOSE i \in 1..Len(s) : s[i] = "."

IntPart(s) == SubSeq(s, 1, DotAt(s) - 1)

FracPart(s) == SubSeq(s, DotAt(s) + 1, Len(s))

\* str.lower() on one token of a price text
lower(c) ==
    CASE c \in {"Lakh", "LAKH"} -> "lakh"
      [] c = "Rs" -> "rs"
      [] OTHER -> c

\* 'lakh' in price_text.lower()
has_lakh(text) == \E i \in 1..Len(text) : lower(text[i]) = "lakh"

\* int(float(numeric)) resp. int(float(numeric) * 100000)
price_value(numeric, lakh) ==
    IF lakh
    THEN IntOf(IntPart(numeric)) * 100000
         + (IntOf(FracPart(numeric)) * 100000) \div Pow10(Len(FracPart(numeric)))
    ELSE IntOf(IntPart(numeric))

\* `tracker.min_price and val < tracker.min_price`
below_min(val, lo) == truthy(lo) /\ val < lo[1]

\* `tracker.max_price and val > tracker.max_price`
above_max(val, hi) == truthy(hi) /\ val > hi[1]

\* the price filter of check_tracker: "admit", "reject" or "raise" (ValueError of float())
deal_price_filter(price_text, lo, hi) ==
    IF ~(truthy(lo) \/ truthy(hi)) THEN "admit"
    ELSE LET numeric == sub_non_numeric(price_text)
         IN IF numeric = <<>> THEN "admit"
            ELSE IF ~float_ok(numeric) THEN "raise"
            ELSE LET val == price_value(numeric, has_lakh(price_text))
                 IN IF below_min(val, lo) \/ above_max(val, hi) THEN "reject" ELSE "admit"

\* the price filter of check_hotel_tracker
hotel_price_filter(price_text, lo, hi) ==
    IF ~(truthy(lo) \/ truthy(hi)) THEN "admit"
    ELSE LET numeric == sub_non_digit(price_text)
         IN IF numeric = <<>> THEN "admit"
            ELSE LET val == IntOf(numeric)
                 IN IF below_min(val, lo) \/ above_max(val, hi) THEN "reject" ELSE "admit"

\* the value the filter of family k compares with the bounds: None when the
\* filter is not configured, finds no numeric text, or raises
compared_value(k, price_text, lo, hi) ==
    IF ~(truthy(lo) \/ truthy(hi)) THEN None
    ELSE CASE k = "deal" ->
                IF float_ok(sub_non_numeric(price_text))
                THEN Some(price_value(sub_non_numeric(price_text), has_lakh(price_text)))
                ELSE None
           [] k = "hotel" ->
                IF sub_non_digit(price_text) # <<>>
                THEN Some(IntOf(sub_non_digit(price_text)))
                ELSE None
           [] k = "job" -> None

\* a filter that takes an empty price text for the price 0
price_filter_strict(k, price_text, lo, hi) ==
    CASE k = "job" -> "admit"
      [] k # "job" /\ price_text = <<>> -> IF truthy(lo) THEN "reject" ELSE "admit"
      [] k = "deal" /\ price_text # <<>> -> deal_price_filter(price_text, lo, hi)
      [] k = "hotel" /\ price_text # <<>> -> hotel_price_filter(price_text, lo, hi)

\* check_job_tracker has no filter
price_filter(k, price_text, lo, hi) ==
    CASE k = "deal" -> deal_price_filter(price_text, lo, hi)
      [] k = "hotel" -> hotel_price_filter(price_text, lo, hi)
      [] k = "job" -> "admit"

(* ------------------------- trackers and pages ------------------------- *)

Kinds == {"deal", "job", "hotel"}

\* two of the family's PLATFORM_CHOICES; any other name falls to `else: continue`
KnownPlatforms(k) ==
    CASE k = "deal" -> {"olx", "quikr"}
      [] k = "job" -> {"linkedin", "naukri"}
      [] k = "hotel" -> {"booking", "oyo"}

FirstPlatform(k) ==
    CASE k = "deal" -> "olx" [] k = "job" -> "linkedin" [] k = "hotel" -> "booking"

SecondPlatform(k) ==
    CASE k = "deal" -> "quikr" [] k = "job" -> "naukri" [] k = "hotel" -> "oyo"

Phone == "9876543210"

LongUrl == Url("c", 1, FALSE)

ShortUrl == Url("a", 0, FALSE)

Item(u, p) == [url |-> u, price |-> p]

\* candidates a page can carry
Items ==
    { Item(ShortUrl, <<>>),
      Item(LongUrl, <<>>),
      Item(Url("b", 0, FALSE), <<"3", " ", "Lakh">>),
      Item(Url("b", 0, TRUE), <<"Rs", ".", " ">>),
      Item(Url("", 0, TRUE), <<>>) }

\* what one adapter call meets: a parsed page, a failed request, or a response
\* whose shape makes the adapter raise
Page(st, its) == [status |-> st, items |-> its]

Pages ==
    {Page("ok", its) : its \in SeqsUpTo(Items, MaxItems)}
      \cup {Page("net_fail", <<>>), Page("raise", <<>>)}

\* the second platform's pages
SidePages == {Page("ok", <<Item(ShortUrl, <<>>)>>), Page("raise", <<>>)}

\* the form values add_tracker / edit_tracker store
Form(num, lo, hi, pl, act) ==
    [whatsapp_number |-> num, min_price |-> lo, max_price |-> hi,
     platforms |-> pl, is_active |-> act]

Forms(k) ==
    { Form(Phone, None, None, <<FirstPlatform(k)>>, TRUE),
      Form("", Some(1000), Some(5000), <<FirstPlatform(k), SecondPlatform(k)>>, TRUE),
      Form(Phone, Some(1000), Some(5000), <<FirstPlatform(k), SecondPlatform(k)>>, TRUE),
      Form("", None, None, <<FirstPlatform(k)>>, FALSE) }

TrackerIds == 1..MaxTrackers

(* ------------------------------ adapters ------------------------------ *)

\* an adapter whose request is not guarded: the failed request raises
adapter_unguarded(page) ==
    CASE page.status = "ok" -> [raised |-> FALSE, raw |-> page.items]
      [] page.status = "net_fail" -> [raised |-> TRUE, raw |-> <<>>]
      [] page.status = "raise" -> [raised |-> TRUE, raw |-> <<>>]

\* scrape_olx & co.: the request sits in try/except and a failure returns the
\* empty list; parsing is not guarded against every shape (AttributeError on a
\* null title, strptime on a malformed check-in date) and may raise
adapter(page) ==
    CASE page.status = "ok" -> [raised |-> FALSE, raw |-> page.items]
      [] page.status = "net_fail" -> [raised |-> FALSE, raw |-> <<>>]
      [] page.status = "raise" -> [raised |-> TRUE, raw |-> <<>>]

(* --------------------------- check_tracker ---------------------------- *)

Faults == {"none", "midbatch", "commit"}

Pending(t, u, pf) == [tracker_id |-> t, url |-> u, platform |-> pf, orphan |-> FALSE]

\* db.session.query(Listing).filter_by(tracker_id=.., url=item_url).first():
\* the session autoflushes, so rows added earlier in this session are seen
exists(store, pending, t, item_url) ==
    \/ \E r \in store : r.tracker_id = t /\ r.url = item_url
    \/ \E i \in 1..Len(pending) : pending[i].tracker_id = t /\ pending[i].url = item_url

\* the tracker has a row, committed or in the session
exists_any(store, pending, t) ==
    \/ \E r \in store : r.tracker_id = t
    \/ \E i \in 1..Len(pending) : pending[i].tracker_id = t

\* state of one check while it runs
Acc(pend, own, why, called, dirty) ==
    [pending |-> pend, own |-> own, why |-> why, called |-> called, dirty |-> dirty]

\* the dedup query of check_tracker is executed: autoflush writes the rows the
\* session holds to the database, and the session's transaction then holds
\* them (on SQLite: the write lock) until it commits or rolls back
queried(acc) == [acc EXCEPT !.dirty = @ \/ acc.pending # <<>>]

\* the loop body without the `if not item_url: continue`
item_step_any_url(t, store, fault, pf, item_url, verdict, acc) ==
    IF fault = "midbatch" /\ acc.pending # <<>>
    THEN Acc(<<>>, <<>>, "flush", acc.called, FALSE)
    ELSE IF exists(store, acc.pending, t, item_url) THEN queried(acc)
    ELSE CASE verdict = "raise" -> [queried(acc) EXCEPT !.why = "filter"]
           [] verdict = "reject" -> queried(acc)
           [] verdict = "admit" ->
                 [queried(acc) EXCEPT
                     !.pending = Append(@, Pending(t, truncate1000(item_url), pf)),
                     !.own = Append(@, Pending(t, truncate1000(item_url), pf))]

\* one turn of `for item in raw:` of check_tracker on the candidate with the
\* stripped url item_url and the price filter's verdict: the state of the check
\* after the turn; why = "skip" stands for `continue`
item_step(t, store, fault, pf, item_url, verdict, acc) ==
    IF IsEmptyUrl(item_url) THEN acc
    ELSE IF fault = "midbatch" /\ acc.pending # <<>>
    THEN Acc(<<>>, <<>>, "flush", acc.called, FALSE)
    ELSE IF exists(store, acc.pending, t, item_url) THEN queried(acc)
    ELSE CASE verdict = "raise" -> [queried(acc) EXCEPT !.why = "filter"]
           [] verdict = "reject" -> queried(acc)
           [] verdict = "admit" ->
                 [queried(acc) EXCEPT
                     !.pending = Append(@, Pending(t, truncate1000(item_url), pf)),
                     !.own = Append(@, Pending(t, truncate1000(item_url), pf))]

RECURSIVE item_loop(_, _, _, _, _, _, _, _)
\* `for item in raw:` of check_tracker
item_loop(k, t, tr, store, fault, pf, raw, acc) ==
    IF raw = <<>> \/ acc.why # "ok" THEN acc
    ELSE item_loop(k, t, tr, store, fault, pf, Tail(raw),
                   item_step(t, store, fault, pf, strip(Head(raw).url),
                             price_filter(k, Head(raw).price, tr.min_price, tr.max_price),
                             acc))

RECURSIVE platform_loop(_, _, _, _, _, _, _, _)
\* `for platform in platforms:` of check_tracker
platform_loop(k, t, tr, store, fault, pages, platforms, acc) ==
    IF platforms = <<>> \/ acc.why # "ok" THEN acc
    ELSE IF Head(platforms) \notin KnownPlatforms(k)
    THEN platform_loop(k, t, tr, store, fault, pages, Tail(platforms), acc)
    ELSE IF adapter(pages[Head(platforms)]).raised
    THEN [acc EXCEPT !.called = Append(@, Head(platforms)), !.why = "adapter"]
    ELSE platform_loop(k, t, tr, store, fault, pages, Tail(platforms),
                       item_loop(k, t, tr, store, fault, Head(platforms),
                                 adapter(pages[Head(platforms)]).raw,
                                 [acc EXCEPT !.called = Append(@, Head(platforms))]))

\* bookkeeping, not program state: the last n rows added to the session were
\* created by an invocation that ended with an exception
MarkOrphans(pending, n) ==
    [i \in 1..Len(pending) |->
        IF i > Len(pending) - n THEN [pending[i] EXCEPT !.orphan = TRUE] ELSE pending[i]]

\* check_tracker / check_job_tracker / check_hotel_tracker on session s.
\* why: "ok" (returned), "adapter" / "filter" (exception in the loops, the
\* session keeps what was added), "flush" / "commit" (the store raised: the
\* session rolled back and stays inactive), "inactive" (the session was already
\* inactive: the first statement that touches it raises), "stale" (the
\* tracker's row was deleted by another session: the UPDATE of last_checked
\* matches no row and the flush of the commit raises), "gone" (the tracker
\* object is expired and its row was deleted: the first attribute read raises,
\* the session is not touched)
check_end(acc, fault, tr) ==
    CASE acc.why \in {"adapter", "filter"} ->
            [why |-> acc.why, pending |-> MarkOrphans(acc.pending, Len(acc.own)),
             own |-> <<>>, called |-> acc.called, inactive |-> FALSE,
             committed |-> FALSE, dirty |-> acc.dirty]
      [] acc.why = "flush" ->
            [why |-> "flush", pending |-> <<>>, own |-> <<>>,
             called |-> acc.called, inactive |-> TRUE, committed |-> FALSE,
             dirty |-> FALSE]
      [] acc.why = "ok" /\ ~tr.exists ->
            [why |-> "stale", pending |-> <<>>, own |-> <<>>,
             called |-> acc.called, inactive |-> TRUE, committed |-> FALSE,
             dirty |-> FALSE]
      [] acc.why = "ok" /\ tr.exists /\ fault = "commit" ->
            [why |-> "commit", pending |-> <<>>, own |-> <<>>,
             called |-> acc.called, inactive |-> TRUE, committed |-> FALSE,
             dirty |-> FALSE]
      [] OTHER ->
            [why |-> "ok", pending |-> acc.pending, own |-> acc.own,
             called |-> acc.called, inactive |-> FALSE, committed |-> TRUE,
             dirty |-> FALSE]

check_tracker(k, t, tr, store, s, pages, fault) ==
    IF s.inactive
    THEN [why |-> "inactive", pending |-> <<>>, own |-> <<>>, called |-> <<>>,
          inactive |-> TRUE, committed |-> FALSE, dirty |-> FALSE]
    ELSE IF ~tr.exists /\ s.expired
    THEN [why |-> "gone", pending |-> s.pending, own |-> <<>>, called |-> <<>>,
          inactive |-> FALSE, committed |-> FALSE, dirty |-> s.dirty]
    ELSE check_end(platform_loop(k, t, tr, store, fault, pages, tr.platforms,
                                 Acc(s.pending, <<>>, "ok", <<>>, s.dirty)),
                   fault, tr)

(* ------------------------------ notifier ------------------------------ *)

AlertPreview == 10

\* what the try block of the notifier meets, whichever transport whatsapp_mode
\* selects (send_whatsapp_pywhatkit, send_whatsapp_twilio): the transport
\* returns (True, ..), returns (False, error), or something in the block raises
Transports == {"sent", "failed", "raised"}

Min(a, b) == IF a < b THEN a ELSE b

Max(a, b) == IF a > b THEN a ELSE b

\* a message that itemises every listing and never has the suffix
Message_uncapped(new_listings, transport) ==
    [outcome |-> transport, count |-> Len(new_listings), shown |-> new_listings, more |-> 0]

\* the message the notifier hands to the transport: the first AlertPreview
\* listings and the count of the rest
Message(new_listings, transport) ==
    [outcome |-> transport,
     count |-> Len(new_listings),
     shown |-> SubSeq(new_listings, 1, Min(Len(new_listings), AlertPreview)),
     more |-> IF Len(new_listings) > AlertPreview
              THEN Len(new_listings) - AlertPreview ELSE 0]

\* a notifier that tests only the target, not the list
send_alert_any_list(whatsapp_number, new_listings, transport) ==
    IF whatsapp_number = ""
    THEN [calls |-> <<>>, raised |-> FALSE]
    ELSE [calls |-> <<Message(new_listings, transport)>>, raised |-> FALSE]

\* a notifier without the try/except around the dispatch
send_alert_unguarded(whatsapp_number, new_listings, transport) ==
    IF whatsapp_number = "" \/ new_listings = <<>>
    THEN [calls |-> <<>>, raised |-> FALSE]
    ELSE [calls |-> <<Message(new_listings, transport)>>, raised |-> transport = "raised"]

\* send_deal_alert / send_job_alert / send_hotel_alert: the transport calls made
\* and whether an exception leaves the function
send_alert(whatsapp_number, new_listings, transport) ==
    IF whatsapp_number = "" \/ new_listings = <<>>
    THEN [calls |-> <<>>, raised |-> FALSE]
    ELSE [calls |-> <<Message(new_listings, transport)>>, raised |-> FALSE]

(* ------------------------------- store -------------------------------- *)

FreshSession == [pending |-> <<>>, inactive |-> FALSE, dirty |-> FALSE, expired |-> FALSE]

MaxId(store) == IF store = {} THEN 0 ELSE CHOOSE m \in {r.id : r \in store} : \A r \in store : r.id <= m

\* the INSERT of one session row; the id is the next rowid
Row(base, i, pr) ==
    [id |-> base + i, tracker_id |-> pr.tracker_id, url |-> pr.url,
     platform |-> pr.platform, is_new |-> TRUE, orphan |-> pr.orphan]

\* db.session.commit(): every row the session holds is inserted
commit_rows(store, pending) == {Row(MaxId(store), i, pending[i]) : i \in 1..Len(pending)}

\* a returned list that holds every row the commit inserted
own_rows_session(store, pending, own) ==
    [i \in 1..Len(pending) |-> Row(MaxId(store), i, pending[i])]

\* the rows of the returned list new_listings, once committed
own_rows(store, pending, own) ==
    [i \in 1..Len(own) |-> Row(MaxId(store), Len(pending) - Len(own) + i, own[i])]

\* an update that flips is_new on every row of the tracker
mark_toggled(store, t) ==
    {IF r.tracker_id = t THEN [r EXCEPT !.is_new = ~r.is_new] ELSE r : r \in store}

\* .update({'is_new': False}) on the tracker's rows with is_new = True
mark_viewed(store, t) ==
    {IF r.tracker_id = t /\ r.is_new THEN [r EXCEPT !.is_new = FALSE] ELSE r : r \in store}

\* cascade='all, delete-orphan' of Tracker.listings
cascade_delete(store, t) == {r \in store : r.tracker_id # t}

(* ------------------------------- state -------------------------------- *)

Tracker(form) ==
    [exists |-> TRUE, last_checked |-> None,
     whatsapp_number |-> form.whatsapp_number, min_price |-> form.min_price,
     max_price |-> form.max_price, platforms |-> form.platforms,
     is_active |-> form.is_active]

Idle == [phase |-> "idle", origin |-> "none", all |-> <<>>, todo |-> <<>>, results |-> <<>>]

\* what the last handler did (bookkeeping for the properties); a handler that
\* is not a check leaves Other
Other ==
    [op |-> "other", t |-> 0, why |-> "ok", raised |-> FALSE, new |-> <<>>, calls |-> <<>>,
     called |-> <<>>, rerun |-> FALSE,
     fresh |-> FALSE, at |-> 0]

\* the row of a deleted tracker
Gone ==
    [exists |-> FALSE, last_checked |-> None, whatsapp_number |-> "", min_price |-> None,
     max_price |-> None, platforms |-> <<>>, is_active |-> FALSE]

CheckOps == {"check_single", "sweep_step"}

\* the brochures table: no row, no request in flight
NoBrochures == [backend |-> "sqlite", rows |-> {}, reqs |-> <<>>]

\* the email subsystem at rest: no message log, no batch, no job
NoMail ==
    [clock |-> 0, earlier |-> 0, sent |-> <<>>, failed |-> 0, requests |-> 0,
     batches |-> <<>>, job |-> 0, jobday |-> -1]

Init ==
    /\ brochures = NoBrochures
    /\ kind \in Kinds
    /\ trackers = [t \in TrackerIds |-> Tracker(CHOOSE f \in Forms(kind) :
                        f.whatsapp_number = Phone /\ f.min_price = None)]
    /\ listings = {}
    /\ web \in {w \in [KnownPlatforms(kind) -> Pages \cup SidePages] :
                  /\ w[FirstPlatform(kind)] \in Pages
                  /\ w[SecondPlatform(kind)] \in SidePages}
    /\ now = 0
    /\ edits = 0
    /\ sess = FreshSession
    /\ sweep = Idle
    /\ last = Other
    /\ mail = NoMail

\* one check on session s followed by the caller's `if new: send_alert(..)`
\* the caller's `if new_listings: send_deal_alert(tracker, new_listings)`
caller_alert(number, new, transport) ==
    IF new # <<>> THEN send_alert(number, new, transport)
    ELSE [calls |-> <<>>, raised |-> FALSE]

run_end(res, new, alert, store) ==
    [res |-> res, new |-> new, alert |-> alert,
     store |-> IF res.committed THEN store \cup commit_rows(store, res.pending) ELSE store,
     raised |-> res.why # "ok" \/ alert.raised]

run_alert(number, res, new, store, transport) ==
    run_end(res, new, caller_alert(number, new, transport), store)

run_new(number, res, store, transport) ==
    run_alert(number, res,
              IF res.committed THEN own_rows(store, res.pending, res.own) ELSE <<>>,
              store, transport)

run_check(t, s, fault, transport) ==
    run_new(trackers[t].whatsapp_number,
            check_tracker(kind, t, trackers[t], listings, s, web, fault),
            listings, transport)

LastCheck(op, t, s, r) ==
    [op |-> op, t |-> t, why |-> r.res.why, raised |-> r.raised, new |-> r.new,
     calls |-> r.alert.calls, called |-> r.res.called,
     rerun |-> last.op \in CheckOps /\ last.t = t /\ ~last.raised,
     fresh |-> ~exists_any(listings, s.pending, t),
     at |-> now + 1]

\* the objects of deleted trackers are dropped with the session that loaded them
discard(trs, over) ==
    IF over THEN [x \in TrackerIds |-> IF trs[x].exists THEN trs[x] ELSE Gone] ELSE trs

\* what a check leaves in the tables; over: the caller's session ends with it
check_effect(op, t, s, r, over) ==
    /\ listings' = r.store
    /\ trackers' = discard(IF r.res.committed
                           THEN [trackers EXCEPT ![t].last_checked = Some(now + 1)]
                           ELSE trackers,
                           over)
    /\ last' = LastCheck(op, t, s, r)

\* POST /check/<tracker_id>: its own request, its own session
check_single(t) ==
    /\ sweep.phase # "running"
    /\ trackers[t].exists
    /\ now < MaxClock
    /\ \E fault \in Faults, transport \in Transports :
         check_effect("check_single", t, FreshSession,
                      run_check(t, FreshSession, fault, transport), TRUE)
    /\ now' = now + 1
    /\ sweep' = Idle
    /\ UNCHANGED <<brochures, mail, kind, web, edits, sess>>

Origins == {"scheduler", "route"}

\* db.session.query(Tracker).filter_by(is_active=True).all()
active_trackers == SetToSeq({t \in TrackerIds : trackers[t].exists /\ trackers[t].is_active})

\* run_daily_deal_check / POST /check-all up to the loop: one session for the
\* whole sweep; the scheduled job returns at once when nothing is active
sweep_start(origin) ==
    /\ sweep.phase # "running"
    /\ now + Len(active_trackers) <= MaxClock
    /\ sweep' = [phase |-> IF active_trackers = <<>> THEN "done" ELSE "running",
                 origin |-> origin, all |-> active_trackers, todo |-> active_trackers,
                 results |-> <<>>]
    /\ sess' = FreshSession
    /\ last' = Other
    /\ UNCHANGED <<brochures, mail, kind, trackers, listings, web, now, edits>>

\* what one turn of the sweep leaves in the tables and in the shared session
sweep_effect(t, r, over) ==
    /\ check_effect("sweep_step", t, sess, r, over)
    /\ sess' = IF over THEN FreshSession
               ELSE [pending |-> IF r.res.committed THEN <<>> ELSE r.res.pending,
                     inactive |-> r.res.inactive,
                     dirty |-> r.res.dirty,
                     expired |-> sess.expired \/ r.res.committed]
    /\ sweep' = [sweep EXCEPT !.phase = IF over THEN "done" ELSE "running",
                              !.todo = Tail(@),
                              !.results = Append(@, [t |-> t, why |-> r.res.why,
                                                     raised |-> r.raised])]

sweep_turn(t, r) ==
    sweep_effect(t, r, (r.raised /\ sweep.origin = "route") \/ Tail(sweep.todo) = <<>>)

\* one turn of `for tracker in trackers:`. The scheduled job wraps the turn in
\* try/except and goes on; the route has no handler, the exception ends the
\* request. When the loop is over the application context is torn down and the
\* session with it.
sweep_step ==
    /\ sweep.phase = "running"
    /\ \E fault \in Faults, transport \in Transports :
         sweep_turn(Head(sweep.todo), run_check(Head(sweep.todo), sess, fault, transport))
    /\ now' = now + 1
    /\ UNCHANGED <<brochures, mail, kind, web, edits>>

\* GET /results/<tracker_id>
results(t) ==
    /\ sweep.phase # "running"
    /\ trackers[t].exists
    /\ listings' = mark_viewed(listings, t)
    /\ last' = Other
    /\ sweep' = Idle
    /\ UNCHANGED <<brochures, mail, kind, trackers, web, now, edits, sess>>

\* POST /edit/<tracker_id>
edit_tracker(t, form) ==
    /\ sweep.phase # "running"
    /\ trackers[t].exists
    /\ edits < MaxEdits
    /\ edits' = edits + 1
    /\ trackers' = [trackers EXCEPT ![t] =
                       [Tracker(form) EXCEPT !.last_checked = trackers[t].last_checked]]
    /\ last' = Other
    /\ sweep' = Idle
    /\ UNCHANGED <<brochures, mail, kind, listings, web, now, sess>>

\* POST /delete/<tracker_id>: its own request and session, also while a sweep
\* is between two trackers (the sweep runs in a scheduler thread or in another
\* worker). A sweep whose session has flushed rows holds the database's write
\* transaction, and the delete waits for it. The sweep goes on with the
\* tracker objects it loaded.
delete_tracker(t) ==
    /\ sweep.phase = "running" => ~sess.dirty
    /\ trackers[t].exists
    /\ trackers' = IF sweep.phase = "running" /\ t \in Range(sweep.todo)
                   THEN [trackers EXCEPT ![t].exists = FALSE]
                   ELSE [trackers EXCEPT ![t] = Gone]
    /\ listings' = cascade_delete(listings, t)
    /\ last' = Other
    /\ sweep' = IF sweep.phase = "running" THEN sweep ELSE Idle
    /\ UNCHANGED <<brochures, mail, kind, web, now, edits, sess>>

Next ==
    \/ \E t \in TrackerIds : check_single(t)
    \/ \E origin \in Origins : sweep_start(origin)
    \/ sweep_step
    \/ \E t \in TrackerIds : results(t)
    \/ \E t \in TrackerIds, form \in Forms(kind) : edit_tracker(t, form)
    \/ \E t \in TrackerIds : delete_tracker(t)

Spec == Init /\ [][Next]_vars

(* ------------------------- the notifier alone ------------------------- *)

\* longest new_listings the notifier is applied to
MaxListed == 11

\* a list of n committed Listings of tracker t
Listed(t, n) == [i \in 1..n |-> Row(0, i, Pending(t, ShortUrl, FirstPlatform(kind)))]

InitNotify ==
    /\ brochures = NoBrochures
    /\ kind \in Kinds
    /\ trackers \in [TrackerIds -> {Tracker(f) : f \in Forms(kind)}]
    /\ listings = {}
    /\ web = [pf \in KnownPlatforms(kind) |-> Page("net_fail", <<>>)]
    /\ now = 0
    /\ edits = 0
    /\ sess = FreshSession
    /\ sweep = Idle
    /\ last = Other
    /\ mail = NoMail

notified(t, new_listings, alert) ==
    last' = [Other EXCEPT !.op = "notify", !.t = t, !.new = new_listings,
                          !.calls = alert.calls, !.raised = alert.raised]

\* send_deal_alert(tracker, new_listings) called with any list
notify(t, n, transport) ==
    /\ notified(t, Listed(t, n),
                send_alert(trackers[t].whatsapp_number, Listed(t, n), transport))
    /\ UNCHANGED <<brochures, mail, kind, trackers, listings, web, now, edits, sess, sweep>>

NextNotify ==
    \E t \in TrackerIds, n \in 0..MaxListed, transport \in Transports :
        notify(t, n, transport)

SpecNotify == InitNotify /\ [][NextNotify]_vars

(* ----------------------- the price filter alone ----------------------- *)

\* tokens of the short price texts
MaxPriceLen == 3

PriceTokens == {"3", "0", ".", " ", "Rs", "Lakh"}

\* price texts as the adapters produce them: every short text, and some longer
\* ones ('5000 - 7000', 'Rs. 3 Lakh', 'Rs.3.5 Lakh', '3.5 lakh', '3 LAKH',
\* '3000', '300000')
PriceTexts ==
    SeqsUpTo(PriceTokens, MaxPriceLen) \cup
    { <<"5", "0", "0", "0", " ", "-", " ", "7", "0", "0", "0">>,
      <<"Rs", ".", " ", "3", " ", "Lakh">>,
      <<"Rs", ".", "3", ".", "5", " ", "Lakh">>,
      <<"3", ".", "5", " ", "lakh">>,
      <<"3", " ", "LAKH">>,
      <<"3", "0", "0", "0">>,
      <<"3", "0", "0", "0", "0", "0">> }

\* (min_price, max_price) as the tracker form stores them
PriceBounds ==
    { <<None, None>>, <<Some(1000), Some(5000)>>, <<Some(100000), Some(500000)>>,
      <<Some(1000), None>>, <<None, Some(5000)>>, <<Some(0), Some(5000)>> }

InitPrice ==
    /\ brochures = NoBrochures
    /\ kind \in Kinds
    /\ \E b \in PriceBounds :
          trackers = [t \in TrackerIds |->
                        Tracker(Form(Phone, b[1], b[2], <<FirstPlatform(kind)>>, TRUE))]
    /\ listings = {}
    /\ \E text \in PriceTexts :
          web = [pf \in KnownPlatforms(kind) |-> Page("ok", <<Item(ShortUrl, text)>>)]
    /\ now = 0
    /\ edits = 0
    /\ sess = FreshSession
    /\ sweep = Idle
    /\ last = Other
    /\ mail = NoMail

\* the price filter applied to the candidate of tracker t's page
filter_candidate(t) ==
    /\ last' = [op |-> "filter", t |-> t,
                text |-> web[FirstPlatform(kind)].items[1].price,
                verdict |-> price_filter(kind, web[FirstPlatform(kind)].items[1].price,
                                         trackers[t].min_price, trackers[t].max_price),
                val |-> compared_value(kind, web[FirstPlatform(kind)].items[1].price,
                                       trackers[t].min_price, trackers[t].max_price)]
    /\ UNCHANGED <<brochures, mail, kind, trackers, listings, web, now, edits, sess, sweep>>

NextPrice == \E t \in TrackerIds : filter_candidate(t)

SpecPrice == InitPrice /\ [][NextPrice]_vars

(* ------------------------- the location filter ------------------------ *)

\* texts are sequences of words and separators
KERALA_CITIES ==
    { <<"thiruvananthapuram">>, <<"trivandrum">>, <<"kochi">>, <<"ernakulam">>,
      <<"kozhikode">>, <<"calicut">>, <<"thrissur">>, <<"kollam">>, <<"palakkad">>,
      <<"alappuzha">>, <<"kannur">>, <<"kottayam">>, <<"malappuram">>,
      <<"pathanamthitta">>, <<"idukki">>, <<"wayanad">>, <<"kasaragod">>,
      <<"kattappana">>, <<"perumbavoor">>, <<"angamaly">>, <<"aluva">>,
      <<"changanassery">>, <<"thodupuzha">>, <<"munnar">>, <<"guruvayur">>,
      <<"kodungallur">> }

\* STATE_CITIES.get(city_lower): the empty set stands for None
STATE_CITIES(city_lower) == IF city_lower = <<"kerala">> THEN KERALA_CITIES ELSE {}

\* str.lower() and str.title() on one word
lower_word(w) ==
    CASE w = "Mumbai" -> "mumbai" [] w = "Navi" -> "navi" [] w = "Delhi" -> "delhi"
      [] w = "Kochi" -> "kochi" [] w = "Kerala" -> "kerala" [] w = "Thrissur" -> "thrissur"
      [] OTHER -> w

title_word(w) ==
    CASE w = "mumbai" -> "Mumbai" [] w = "navi" -> "Navi" [] w = "delhi" -> "Delhi"
      [] w = "kochi" -> "Kochi" [] w = "kerala" -> "Kerala" [] w = "thrissur" -> "Thrissur"
      [] OTHER -> w

lower_text(s) == [i \in 1..Len(s) |-> lower_word(s[i])]
title_text(s) == [i \in 1..Len(s) |-> title_word(s[i])]

\* str.replace('-', ' ')
unhyphen(s) == [i \in 1..Len(s) |-> IF s[i] = "-" THEN " " ELSE s[i]]

RECURSIVE lstrip(_)
lstrip(s) == IF s # <<>> /\ Head(s) = " " THEN lstrip(Tail(s)) ELSE s

RECURSIVE rstrip(_)
rstrip(s) == IF s # <<>> /\ s[Len(s)] = " " THEN rstrip(SubSeq(s, 1, Len(s) - 1)) ELSE s

\* str.strip() of a text
strip_text(s) == rstrip(lstrip(s))

\* `sub in s`
contains(s, sub) == \E i \in 1..(Len(s) - Len(sub) + 1) : SubSeq(s, i, i + Len(sub) - 1) = sub

\* the state branch of _is_location_match
state_match(loc_lower, state_cities) ==
    loc_lower \in state_cities \/ \E c \in state_cities : contains(loc_lower, c)

\* _is_location_match(location, city_input)
location_match(location, city_input) ==
    IF location = <<>> THEN TRUE
    ELSE IF \/ contains(unhyphen(lower_text(location)), strip_text(lower_text(city_input)))
            \/ contains(strip_text(lower_text(city_input)), unhyphen(lower_text(location)))
    THEN TRUE
    ELSE IF STATE_CITIES(strip_text(lower_text(city_input))) # {}
    THEN state_match(unhyphen(lower_text(location)),
                     STATE_CITIES(strip_text(lower_text(city_input))))
    ELSE FALSE

\* city = (tracker.city or 'Mumbai').strip().lower() of check_tracker
tracker_city(city) == lower_text(strip_text(IF city = <<>> THEN <<"Mumbai">> ELSE city))

DealPlatforms == {"serpapi", "cardekho", "olx", "quikr"}

\* the 'location' values of the candidates an adapter returns for one upstream
\* item with the given location text (for serpapi: whether the snippet names
\* the city): scrape_cardekho drops a candidate that fails the location test,
\* scrape_olx and scrape_quikr pass the text on, scrape_serpapi writes the
\* tracker's city
scrape_locations(platform, location, city) ==
    CASE platform = "cardekho" ->
            IF location_match(location, city)
            THEN << [candidate |-> location,
                     location |-> IF location # <<>> THEN location ELSE title_text(city)] >>
            ELSE <<>>
      [] platform \in {"olx", "quikr"} ->
            << [candidate |-> location, location |-> location] >>
      [] platform = "serpapi" ->
            << [candidate |-> IF contains(lower_text(location), city)
                              THEN title_text(city) ELSE <<>>,
                location |-> title_text(city)] >>

\* tracker.city as entered, and the location texts of upstream items
Cities == { <<>>, <<"Kerala">>, <<"mumbai">>, <<"Delhi", " ">> }

Locations ==
    { <<>>, <<"Kochi">>, <<"Navi", "-", "Mumbai">>, <<"Delhi">>, <<"Mumbai">>,
      <<"Thrissur", " ", "Kerala">>, <<"Kerala">>, <<"Navi">> }

InitLocation ==
    /\ brochures = NoBrochures
    /\ kind = "deal"
    /\ \E c \in Cities, pl \in DealPlatforms :
         trackers = [t \in TrackerIds |->
                       [exists |-> TRUE, last_checked |-> None, whatsapp_number |-> "",
                        min_price |-> None, max_price |-> None, platforms |-> <<pl>>,
                        is_active |-> TRUE, city |-> c]]
    /\ listings = {}
    /\ \E l \in Locations :
         web = [pf \in DealPlatforms |->
                  Page("ok", <<[url |-> ShortUrl, price |-> <<>>, location |-> l]>>)]
    /\ now = 0
    /\ edits = 0
    /\ sess = FreshSession
    /\ sweep = Idle
    /\ last = Other
    /\ mail = NoMail

\* check_tracker of tracker t on a store without rows of t: the candidates of
\* its platform are stored with the location the adapter gave them
locate_candidate(t) ==
    /\ last' = [op |-> "locate", t |-> t,
                platform |-> trackers[t].platforms[1],
                city |-> tracker_city(trackers[t].city),
                upstream |-> web[trackers[t].platforms[1]].items[1].location,
                stored |-> scrape_locations(trackers[t].platforms[1],
                                            web[trackers[t].platforms[1]].items[1].location,
                                            tracker_city(trackers[t].city))]
    /\ UNCHANGED <<brochures, mail, kind, trackers, listings, web, now, edits, sess, sweep>>

NextLocation == \E t \in TrackerIds : locate_candidate(t)

SpecLocation == InitLocation /\ [][NextLocation]_vars

(* -------------------------- the source adapters ----------------------- *)

\* the [:30] slice of the card and JSON loops
ItemCap == 30

\* upstream items in one response
ItemCounts == {0, 3, 31}

\* items in the response to scrape_serpapi's second query
SecondCounts == {0, 16}

Adapters ==
    {"cardekho", "olx", "quikr", "serpapi",
     "linkedin", "foundit", "naukri", "facebook", "instagram", "twitter", "google_jobs",
     "booking", "oyo"}

\* requests.get + raise_for_status (resp.json() for the API): a response, a
\* connection error, a timeout, a status that is not 2xx
NetOutcomes == {"ok", "error", "timeout", "non2xx"}

\* what the body carries: the HTML cards the selectors look for, the embedded
\* JSON / the API's result list, or neither
Layouts == {"html", "json", "none"}

\* the first item of the response: well formed; without a title; with a JSON
\* null or a value of another type where the adapter expects a string or a
\* mapping (title: null, jdURL: 5, placeholders: ["x"])
Defects == {"plain", "untitled", "null_field"}

Response(net, layout, defect, n) == [net |-> net, layout |-> layout, defect |-> defect, n |-> n]

Responses ==
    {Response(net, layout, defect, n) :
        net \in NetOutcomes, layout \in Layouts, defect \in Defects, n \in ItemCounts}

\* tracker.checkin, tracker.checkout as the forms store them: any text
DateTexts == {"", "2026-12-24", "24/12"}

\* datetime.strptime(text, '%Y-%m-%d') raises ValueError
strptime_raises(text) == text \notin {"2026-12-24"}

returns(n) == [raised |-> FALSE, count |-> n]
raises == [raised |-> TRUE, count |-> 0]

\* items of the slice that have a title
titled(resp, n) == IF resp.defect = "untitled" /\ n > 0 THEN n - 1 ELSE n

\* the card loop of an HTML adapter: for card in cards[:30], skipping a card
\* without title; every field is read with `.. if el else ''`
card_loop(resp) ==
    IF resp.layout = "html" THEN returns(titled(resp, Min(resp.n, ItemCap))) ELSE returns(0)

\* scrape_cardekho, scrape_quikr, scrape_linkedin, scrape_oyo: the request in
\* try/except, then the card loop
html_adapter(resp) == IF resp.net # "ok" THEN returns(0) ELSE card_loop(resp)

\* scrape_olx: the card loop, or the __NEXT_DATA__ fallback under
\* except (JSONDecodeError, KeyError, TypeError), where title.lower() on a
\* null title is an AttributeError; the fallback keeps items without a title
scrape_olx(resp) ==
    IF resp.net # "ok" THEN returns(0)
    ELSE IF resp.layout = "html" /\ resp.n > 0 THEN card_loop(resp)
    ELSE IF resp.layout = "json"
    THEN IF resp.defect = "null_field" /\ resp.n > 0 THEN raises
         ELSE returns(Min(resp.n, ItemCap))
    ELSE returns(0)

\* scrape_foundit: __NEXT_DATA__ only; job_url.startswith on a jdURL that is
\* not a string is an AttributeError
scrape_foundit(resp) ==
    IF resp.net # "ok" THEN returns(0)
    ELSE IF resp.layout = "json" /\ resp.n > 0
    THEN IF resp.defect = "null_field" THEN raises
         ELSE returns(titled(resp, Min(resp.n, ItemCap)))
    ELSE returns(0)

\* scrape_naukri: __NEXT_DATA__ (a list of more than two jobs; p.get on a
\* placeholder that is not a mapping is an AttributeError), else the cards
scrape_naukri(resp) ==
    IF resp.net # "ok" THEN returns(0)
    ELSE IF resp.layout = "json" /\ resp.n > 2
    THEN IF resp.defect = "null_field" THEN raises
         ELSE returns(titled(resp, Min(resp.n, ItemCap)))
    ELSE card_loop(resp)

\* scrape_booking: strptime(checkin) for the default checkout comes before the
\* guarded request
scrape_booking(resp, checkin, checkout) ==
    IF checkin # "" /\ checkout = "" /\ strptime_raises(checkin) THEN raises
    ELSE html_adapter(resp)

\* one query of scrape_serpapi: the whole turn sits in try/except Exception;
\* every organic result with title and link is kept, there is no slice
serpapi_query(resp) ==
    IF resp.net # "ok" \/ resp.layout # "json" THEN 0
    ELSE IF resp.defect = "plain" THEN resp.n
    ELSE IF resp.n > 0 THEN resp.n - 1 ELSE 0

\* scrape_serpapi: two queries, then the results with distinct urls; same: the
\* second response repeats urls of the first
scrape_serpapi(resp, second, same) ==
    returns(IF same
            THEN Max(serpapi_query(resp), serpapi_query(second))
            ELSE serpapi_query(resp) + serpapi_query(second))

\* _scrape_serpapi_social, scrape_google_jobs: request and resp.json() are
\* guarded; the loop over the results is not, and `.get('title', '').strip()`
\* on a null title is an AttributeError; there is no slice
scrape_serpapi_jobs(resp) ==
    IF resp.net # "ok" \/ resp.layout # "json" THEN returns(0)
    ELSE IF resp.defect = "null_field" /\ resp.n > 0 THEN raises
    ELSE returns(titled(resp, resp.n))

\* the adapter check_tracker / check_job_tracker / check_hotel_tracker calls
\* for the platform
scrape(platform, resp, second, same, checkin, checkout) ==
    CASE platform \in {"cardekho", "quikr", "linkedin", "oyo"} -> html_adapter(resp)
      [] platform = "olx" -> scrape_olx(resp)
      [] platform = "foundit" -> scrape_foundit(resp)
      [] platform = "naukri" -> scrape_naukri(resp)
      [] platform = "booking" -> scrape_booking(resp, checkin, checkout)
      [] platform = "serpapi" -> scrape_serpapi(resp, second, same)
      [] platform \in {"facebook", "instagram", "twitter", "google_jobs"} ->
            scrape_serpapi_jobs(resp)

AdapterKind(platform) ==
    CASE platform \in {"cardekho", "olx", "quikr", "serpapi"} -> "deal"
      [] platform \in {"booking", "oyo"} -> "hotel"
      [] OTHER -> "job"

InitAdapter ==
    /\ brochures = NoBrochures
    /\ \E pl \in Adapters, checkin \in DateTexts, checkout \in {"", "2026-12-24"} :
         /\ kind = AdapterKind(pl)
         /\ trackers = [t \in TrackerIds |->
                          [exists |-> TRUE, last_checked |-> None, whatsapp_number |-> "",
                           min_price |-> None, max_price |-> None, platforms |-> <<pl>>,
                           is_active |-> TRUE, checkin |-> checkin, checkout |-> checkout]]
    /\ listings = {}
    /\ \E resp \in Responses, n2 \in SecondCounts, same \in BOOLEAN :
         web = [first |-> resp, second |-> Response("ok", "json", "plain", n2), same |-> same]
    /\ now = 0
    /\ edits = 0
    /\ sess = FreshSession
    /\ sweep = Idle
    /\ last = Other
    /\ mail = NoMail

\* the adapter call of tracker t's check
scrape_page(t) ==
    /\ last' = [op |-> "scrape", t |-> t, platform |-> trackers[t].platforms[1],
                out |-> scrape(trackers[t].platforms[1], web.first, web.second, web.same,
                               trackers[t].checkin, trackers[t].checkout)]
    /\ UNCHANGED <<brochures, mail, kind, trackers, listings, web, now, edits, sess, sweep>>

NextAdapter == \E t \in TrackerIds : scrape_page(t)

SpecAdapter == InitAdapter /\ [][NextAdapter]_vars

(* ----------------------------- bulk email ------------------------------ *)

\* config.py
EMAIL_RATE_PER_HOUR == 20
EMAIL_RATE_PER_DAY == 200

\* .limit(20) of the daily job's contact query
JobLimit == 20

\* now.replace(hour=0, ..): a UTC day starts every 24 hours
HoursPerDay == 24

\* the clock runs from FirstHour for MaxHours hours, across one midnight
FirstHour == 22
MaxHours == 2
Hours == FirstHour..(FirstHour + MaxHours)

\* POST /email/send requests, and failed sends, in one behaviour
MaxRequests == 2
MaxFailed == 1

\* len(contacts) of a request; the contacts the job's query returns before the
\* limit
ContactCounts == {3}
NewContacts == {0, 4}

\* the message log at the start: emails sent earlier on the first day, more
\* than an hour before FirstHour, and emails sent in hour FirstHour by batches
\* that have ended
EarlierToday == {0, 180}
SentThisHour == {0, 18}

DayOf(h) == h \div HoursPerDay

RECURSIVE sent_between(_, _, _)
\* MessageLog rows with channel 'email', status 'sent' and a <= sent_at <= b
sent_between(sent, a, b) == IF a > b THEN 0 ELSE sent[a] + sent_between(sent, a + 1, b)

\* the 'sent' rows of the day of hour h
sent_on_day(m, h) ==
    sent_between(m.sent, Max(DayOf(h) * HoursPerDay, FirstHour),
                 Min((DayOf(h) + 1) * HoursPerDay - 1, FirstHour + MaxHours))
    + (IF DayOf(h) = DayOf(FirstHour) THEN m.earlier ELSE 0)

\* get_rate_limit_status: (sent_this_hour, sent_today) at the clock of m
get_rate_limit_status(m) ==
    <<sent_between(m.sent, Max(m.clock - 1, FirstHour), m.clock),
      sent_between(m.sent, Max(DayOf(m.clock) * HoursPerDay, FirstHour), m.clock)
      + (IF DayOf(m.clock) = DayOf(FirstHour) THEN m.earlier ELSE 0)>>

\* max_sendable of send() for a request that selects n contacts
max_sendable(status, n) ==
    Min(Min(Max(0, EMAIL_RATE_PER_HOUR - status[1]),
            Max(0, EMAIL_RATE_PER_DAY - status[2])), n)

\* one turn of the sending loop: the MessageLog row is committed with status
\* 'sent' and sent_at = now, or with status 'failed'
log_message(m, outcome) ==
    IF outcome = "sent"
    THEN [m EXCEPT !.sent[m.clock] = @ + 1]
    ELSE [m EXCEPT !.failed = @ + 1]

SendOutcomes(m) == IF m.failed < MaxFailed THEN {"sent", "failed"} ELSE {"sent"}

InitEmail ==
    /\ brochures = NoBrochures
    /\ kind = "deal"
    /\ trackers = [t \in TrackerIds |-> Gone]
    /\ listings = {}
    /\ web = [p \in KnownPlatforms(kind) |-> Page("ok", <<>>)]
    /\ now = 0
    /\ edits = 0
    /\ sess = FreshSession
    /\ sweep = Idle
    /\ last = Other
    /\ \E e \in EarlierToday, r \in SentThisHour :
         mail = [clock |-> FirstHour, earlier |-> e,
                 sent |-> [h \in Hours |-> IF h = FirstHour THEN r ELSE 0],
                 failed |-> 0, requests |-> 0, batches |-> <<>>, job |-> 0,
                 jobday |-> -1]

\* POST /email/send with n contacts selected: the rate check, then the thread
send(n) ==
    /\ mail.requests < MaxRequests
    /\ mail' = [mail EXCEPT
                  !.requests = @ + 1,
                  !.batches = IF max_sendable(get_rate_limit_status(mail), n) = 0 THEN @
                              ELSE Append(@, max_sendable(get_rate_limit_status(mail), n))]
    /\ UNCHANGED <<brochures, kind, trackers, listings, web, now, edits, sess, sweep, last>>

\* one turn of `for contact in contacts:` in the thread of batch i
send_batch(i) ==
    /\ i \in 1..Len(mail.batches)
    /\ mail.batches[i] > 0
    /\ \E outcome \in SendOutcomes(mail) :
         mail' = [log_message(mail, outcome) EXCEPT !.batches[i] = @ - 1]
    /\ UNCHANGED <<brochures, kind, trackers, listings, web, now, edits, sess, sweep, last>>

\* run_daily_email up to its loop (once a day, cron): the contact query with
\* its limit; no look at the message log
run_daily_email(n) ==
    /\ mail.job = 0
    /\ mail.jobday # DayOf(mail.clock)
    /\ mail' = [mail EXCEPT !.job = Min(n, JobLimit), !.jobday = DayOf(mail.clock)]
    /\ UNCHANGED <<brochures, kind, trackers, listings, web, now, edits, sess, sweep, last>>

\* one turn of `for contact in contacts:` of run_daily_email
daily_email_turn ==
    /\ mail.job > 0
    /\ \E outcome \in SendOutcomes(mail) :
         mail' = [log_message(mail, outcome) EXCEPT !.job = @ - 1]
    /\ UNCHANGED <<brochures, kind, trackers, listings, web, now, edits, sess, sweep, last>>

\* an hour passes
hour_passes ==
    /\ mail.clock < FirstHour + MaxHours
    /\ mail' = [mail EXCEPT !.clock = @ + 1]
    /\ UNCHANGED <<brochures, kind, trackers, listings, web, now, edits, sess, sweep, last>>

NextEmail ==
    \/ \E n \in ContactCounts : send(n)
    \/ \E i \in 1..MaxRequests : send_batch(i)
    \/ \E n \in NewContacts : run_daily_email(n)
    \/ daily_email_turn
    \/ hour_passes

SpecEmail == InitEmail /\ [][NextEmail]_vars

(* --------------------------- the results page ------------------------- *)

\* paginate(page=page, per_page=20, error_out=False)
PER_PAGE == 20

\* Listings a tracker holds at the start, pages a request asks for
MaxStored == 21
MaxPage == 2

\* n Listings of tracker t, committed by earlier checks and not viewed yet
Stored(t, n) == {Row(0, i, Pending(t, ShortUrl, FirstPlatform(kind))) : i \in 1..n}

\* position of row r in tracker.listings.order_by(found_at.desc()): the rows
\* were found in the order of their ids
rank(store, r) == Cardinality({x \in store : x.tracker_id = r.tracker_id /\ x.id > r.id}) + 1

\* the ids of the Listings on the page the request renders
paginate(store, t, page) ==
    {r.id : r \in {x \in store : /\ x.tracker_id = t
                                 /\ rank(store, x) > (page - 1) * PER_PAGE
                                 /\ rank(store, x) <= page * PER_PAGE}}

InitResults ==
    /\ brochures = NoBrochures
    /\ kind \in Kinds
    /\ trackers = [t \in TrackerIds |-> Tracker(Form(Phone, None, None,
                                                     <<FirstPlatform(kind)>>, TRUE))]
    /\ \E n \in 0..MaxStored : listings = Stored(1, n)
    /\ web = [pf \in KnownPlatforms(kind) |-> Page("ok", <<Item(LongUrl, <<>>)>>)]
    /\ now = 0
    /\ edits = 0
    /\ sess = FreshSession
    /\ sweep = Idle
    /\ last = Other
    /\ mail = NoMail

\* GET /results/<tracker_id>?page=..: the tracker is found and the page query
\* has run; the update has not
results_page(t, page) ==
    /\ last.op # "page"
    /\ trackers[t].exists
    /\ last' = [op |-> "page", t |-> t, page |-> page,
                rendered |-> paginate(listings, t, page)]
    /\ UNCHANGED <<brochures, mail, kind, trackers, listings, web, now, edits, sess, sweep>>

\* the rest of the request: the update of is_new, the commit, the template
results_mark ==
    /\ last.op = "page"
    /\ listings' = mark_viewed(listings, last.t)
    /\ last' = [last EXCEPT !.op = "results"]
    /\ UNCHANGED <<brochures, mail, kind, trackers, web, now, edits, sess, sweep>>

\* a check of tracker t in another thread (scheduler job or another request)
\* commits one new Listing
check_commits(t) ==
    /\ now < MaxClock
    /\ trackers[t].exists
    /\ listings' = listings \cup
                     commit_rows(listings, <<Pending(t, truncate1000(LongUrl),
                                                     FirstPlatform(kind))>>)
    /\ now' = now + 1
    /\ UNCHANGED <<brochures, mail, kind, trackers, web, edits, sess, sweep, last>>

NextResults ==
    \/ \E t \in TrackerIds, page \in 1..MaxPage : results_page(t, page)
    \/ results_mark
    \/ \E t \in TrackerIds : check_commits(t)

SpecResults == InitResults /\ [][NextResults]_vars

(* ------------------- two checks of the same tracker ------------------- *)

\* the scheduler thread's run_daily_deal_check and a request thread's
\* check_single; each has its own scoped session
Threads == {"scheduler", "request"}

\* the tracker both check
Shared == 1

\* a thread before it calls check_tracker
Waiting == [pc |-> "idle", raw |-> <<>>, acc |-> Acc(<<>>, <<>>, "ok", <<>>, FALSE)]

\* SQLite's write lock: a session that has flushed rows holds it until its
\* commit, and another session's flush or commit waits for it
may_write(th) == \A other \in Threads \ {th} : ~sess[other].acc.dirty

InitConcurrent ==
    /\ brochures = NoBrochures
    /\ kind \in Kinds
    /\ trackers = [t \in TrackerIds |-> Tracker(Form(Phone, None, None,
                                                     <<FirstPlatform(kind)>>, TRUE))]
    /\ listings = {}
    /\ \E its \in SeqsUpTo(Items, MaxItems) :
          web = [pf \in KnownPlatforms(kind) |-> Page("ok", its)]
    /\ now = 0
    /\ edits = 0
    /\ sess = [th \in Threads |-> Waiting]
    /\ sweep = Idle
    /\ last = Other
    /\ mail = NoMail

\* check_tracker up to the adapter's return: the thread holds the candidates
check_scrapes(th) ==
    /\ sess[th].pc = "idle"
    /\ sess' = [sess EXCEPT ![th].pc = "loop",
                            ![th].raw = adapter(web[FirstPlatform(kind)]).raw]
    /\ UNCHANGED <<brochures, mail, kind, trackers, listings, web, now, edits, sweep, last>>

\* one turn of `for item in raw:` in one thread: the dedup query sees the
\* committed rows and the rows of the thread's own session
check_turn(th) ==
    /\ sess[th].pc = "loop"
    /\ sess[th].raw # <<>>
    /\ sess[th].acc.pending # <<>> => may_write(th)
    /\ sess' = [sess EXCEPT
          ![th].raw = Tail(@),
          ![th].acc = item_step(Shared, listings, "none", FirstPlatform(kind),
                                strip(Head(sess[th].raw).url),
                                price_filter(kind, Head(sess[th].raw).price,
                                             trackers[Shared].min_price,
                                             trackers[Shared].max_price),
                                @)]
    /\ UNCHANGED <<brochures, mail, kind, trackers, listings, web, now, edits, sweep, last>>

\* tracker.last_checked = ..; db.session.commit() in one thread
check_commit(th) ==
    /\ sess[th].pc = "loop"
    /\ sess[th].raw = <<>>
    /\ may_write(th)
    /\ listings' = listings \cup commit_rows(listings, sess[th].acc.pending)
    /\ trackers' = [trackers EXCEPT ![Shared].last_checked = Some(now)]
    /\ sess' = [sess EXCEPT ![th].pc = "done",
                            ![th].acc = Acc(<<>>, <<>>, "ok", <<>>, FALSE)]
    /\ UNCHANGED <<brochures, mail, kind, web, now, edits, sweep, last>>

NextConcurrent ==
    \/ \E th \in Threads : check_scrapes(th)
    \/ \E th \in Threads : check_turn(th)
    \/ \E th \in Threads : check_commit(th)

SpecConcurrent == InitConcurrent /\ [][NextConcurrent]_vars

(* ------------------------ message logs and contacts ------------------- *)

CONTACT_STATUSES == {"new", "contacted", "responded", "converted", "inactive"}

\* .limit(10) of run_daily_whatsapp (JobLimit is the .limit(20) of run_daily_email)
WhatsappJobLimit == 10

MaxContacts == 2
MaxRuns == 1

ContactIds == 1..MaxContacts

\* the two send_batch threads and the two scheduled jobs
Senders == {"email_batch", "whatsapp_batch", "daily_email", "daily_whatsapp"}

Scheduled == {"daily_email", "daily_whatsapp"}

channel(who) == IF who \in {"email_batch", "daily_email"} THEN "email" ELSE "whatsapp"

\* MessageLog(contact_id=.., channel=.., status='pending'); sent_at is nullable
\* and has no default
MessageLog(c, ch) == [contact_id |-> c, channel |-> ch, status |-> "pending", sent_at |-> None]

\* the attempt's result written on every outcome as on success
log_result_stamped(log, success, at) ==
    [log EXCEPT !.status = IF success THEN "sent" ELSE "failed",
                !.sent_at = Some(at)]

\* log.status = 'sent' if success else 'failed';
\* log.sent_at = datetime.now(timezone.utc) if success else None
log_result(log, success, at) ==
    [log EXCEPT !.status = IF success THEN "sent" ELSE "failed",
                !.sent_at = IF success THEN Some(at) ELSE None]

Take(s, n) == SubSeq(s, 1, Min(Len(s), n))

\* no sender is running
NoSender == [who |-> "none", todo |-> <<>>, loaded |-> <<>>, pc |-> "next"]

\* mail.contacts: the status column of the committed Contact rows;
\* mail.logs: the committed MessageLog rows;
\* mail.job.loaded: the status attribute of the Contact objects a send_batch
\*   thread iterates over. They were loaded by the request's session, which the
\*   thread's own session (used by its commits) does not share
InitSend ==
    /\ brochures = NoBrochures
    /\ kind \in Kinds
    /\ trackers = [t \in TrackerIds |-> Gone]
    /\ listings = {}
    /\ web = [pf \in KnownPlatforms(kind) |-> Page("ok", <<>>)]
    /\ now = 0
    /\ edits = 0
    /\ sess = FreshSession
    /\ sweep = Idle
    /\ last = Other
    /\ \E st \in [ContactIds -> CONTACT_STATUSES] :
          mail = [contacts |-> st, logs |-> <<>>, job |-> NoSender, runs |-> 0]

\* POST /email/send or /whatsapp/send: the selected contacts are loaded and the
\* send_batch thread is started
send_route(who, ids) ==
    /\ who \notin Scheduled
    /\ mail.job.who = "none"
    /\ mail.runs < MaxRuns
    /\ ids # {}
    /\ mail' = [mail EXCEPT !.runs = @ + 1,
                            !.job = [who |-> who, todo |-> SetToSeq(ids),
                                     loaded |-> [c \in ids |-> mail.contacts[c]],
                                     pc |-> "next"]]
    /\ last' = [op |-> "send_route", who |-> who]
    /\ UNCHANGED <<brochures, kind, trackers, listings, web, now, edits, sess, sweep>>

\* run_daily_email / run_daily_whatsapp up to the loop: the contacts with status
\* 'new' are queried
daily_job(who) ==
    /\ who \in Scheduled
    /\ mail.job.who = "none"
    /\ mail.runs < MaxRuns
    /\ mail' = [mail EXCEPT
          !.runs = @ + 1,
          !.job = [who |-> who,
                   todo |-> Take(SetToSeq({c \in ContactIds : mail.contacts[c] = "new"}),
                                 IF who = "daily_email" THEN JobLimit ELSE WhatsappJobLimit),
                   loaded |-> <<>>,
                   pc |-> "next"]]
    /\ last' = [op |-> "daily_job", who |-> who]
    /\ UNCHANGED <<brochures, kind, trackers, listings, web, now, edits, sess, sweep>>

\* the loop body up to the send: the log is added and committed as 'pending';
\* the WhatsApp senders skip a contact without a phone number
log_pending(has_phone) ==
    /\ mail.job.who # "none"
    /\ mail.job.pc = "next"
    /\ mail.job.todo # <<>>
    /\ channel(mail.job.who) = "email" => has_phone
    /\ mail' = IF has_phone
               THEN [mail EXCEPT
                        !.logs = Append(@, MessageLog(Head(mail.job.todo), channel(mail.job.who))),
                        !.job.pc = "sending"]
               ELSE [mail EXCEPT !.job.todo = Tail(@)]
    /\ last' = [op |-> "log_pending", c |-> Head(mail.job.todo), skipped |-> ~has_phone]
    /\ UNCHANGED <<brochures, kind, trackers, listings, web, now, edits, sess, sweep>>

\* the rest of the loop body: the send returned (success, error); the log's
\* status and sent_at and the contact's status are set and committed. A
\* scheduled job sets the status of its own session's Contact; a send_batch
\* thread sets it on the request's object, which its commit does not write
send_returns(success) ==
    /\ mail.job.who # "none"
    /\ mail.job.pc = "sending"
    /\ LET c == Head(mail.job.todo)
           who == mail.job.who
       IN  /\ mail' = [mail EXCEPT
                  !.logs[Len(mail.logs)] = log_result(@, success, now),
                  !.contacts[c] = IF success /\ who \in Scheduled THEN "contacted" ELSE @,
                  !.job.loaded = IF who \notin Scheduled /\ success /\ @[c] = "new"
                                 THEN [@ EXCEPT ![c] = "contacted"] ELSE @,
                  !.job.todo = Tail(@),
                  !.job.pc = "next"]
           /\ last' = [op |-> "send_returns", c |-> c, success |-> success, who |-> who]
    /\ UNCHANGED <<brochures, kind, trackers, listings, web, now, edits, sess, sweep>>

\* the sender ends between the two commits: the second commit raises (the
\* database is locked) or the process stops
sender_dies ==
    /\ mail.job.who # "none"
    /\ mail.job.pc = "sending"
    /\ mail' = [mail EXCEPT !.job = NoSender]
    /\ last' = [op |-> "sender_dies"]
    /\ UNCHANGED <<brochures, kind, trackers, listings, web, now, edits, sess, sweep>>

\* the loop is over
sender_ends ==
    /\ mail.job.who # "none"
    /\ mail.job.pc = "next"
    /\ mail.job.todo = <<>>
    /\ mail' = [mail EXCEPT !.job = NoSender]
    /\ last' = [op |-> "sender_ends"]
    /\ UNCHANGED <<brochures, kind, trackers, listings, web, now, edits, sess, sweep>>

\* POST /contacts/edit/<id>: the form's status is stored
edit_contact(c, status) ==
    /\ mail.contacts[c] # status
    /\ mail' = [mail EXCEPT !.contacts[c] = status]
    /\ last' = [op |-> "edit_contact", c |-> c]
    /\ UNCHANGED <<brochures, kind, trackers, listings, web, now, edits, sess, sweep>>

NextSend ==
    \/ \E who \in Senders, ids \in SUBSET ContactIds : send_route(who, ids)
    \/ \E who \in Senders : daily_job(who)
    \/ \E has_phone \in BOOLEAN : log_pending(has_phone)
    \/ \E success \in BOOLEAN : send_returns(success)
    \/ sender_dies
    \/ sender_ends
    \/ \E c \in ContactIds, status \in CONTACT_STATUSES : edit_contact(c, status)

SpecSend == InitSend /\ [][NextSend]_vars

(* ------------------------------ brochures ----------------------------- *)

\* requests in flight at a time, brochures ever uploaded
MaxClients == 2
MaxBrochures == 2

Clients == 1..MaxClients

\* SQLALCHEMY_DATABASE_URI: the default SQLite file, or the PostgreSQL
\* database of DATABASE_URL
Backends == {"sqlite", "postgresql"}

\* a client without a request in flight
Ready == [op |-> "none", id |-> 0, is_default |-> FALSE, cleared |-> {}, wrote |-> FALSE]

BrochureIds(b) == {r.id : r \in b.rows}

\* a statement of client cl that writes the rows `ids` can run: SQLite admits one
\* writing transaction at a time; PostgreSQL makes the statement wait for the
\* transactions that have updated one of the rows
can_write(b, cl, ids) ==
    \A other \in Clients \ {cl} :
        IF b.backend = "sqlite" THEN ~b.reqs[other].wrote
        ELSE b.reqs[other].cleared \cap ids = {}

\* the committed rows after the commit of a transaction that ran
\* query(Brochure).update({is_default: False}) on the rows `cleared`
clear_defaults(rows, cleared) ==
    {IF r.id \in cleared THEN [r EXCEPT !.is_default = FALSE] ELSE r : r \in rows}

InitBrochure ==
    /\ \E backend \in Backends :
          brochures = [backend |-> backend, rows |-> {}, next |-> 1,
                       reqs |-> [cl \in Clients |-> Ready]]
    /\ kind \in Kinds
    /\ trackers = [t \in TrackerIds |-> Gone]
    /\ listings = {}
    /\ web = [pf \in KnownPlatforms(kind) |-> Page("ok", <<>>)]
    /\ now = 0
    /\ edits = 0
    /\ sess = FreshSession
    /\ sweep = Idle
    /\ last = Other
    /\ mail = NoMail

\* POST /brochures/upload up to the creation of the Brochure: with is_default
\* checked, the UPDATE that clears every row's flag has run in the request's
\* transaction
upload_clears(cl, is_default) ==
    /\ brochures.reqs[cl].op = "none"
    /\ brochures.next <= MaxBrochures
    /\ is_default => can_write(brochures, cl, BrochureIds(brochures))
    /\ brochures' = [brochures EXCEPT
          !.next = @ + 1,
          !.reqs[cl] = [op |-> "upload", id |-> brochures.next, is_default |-> is_default,
                        cleared |-> IF is_default THEN BrochureIds(brochures) ELSE {},
                        wrote |-> is_default]]
    /\ UNCHANGED <<kind, trackers, listings, web, now, edits, sess, sweep, last, mail>>

\* the rest of upload: the Brochure is added and the transaction commits
upload_commits(cl) ==
    /\ brochures.reqs[cl].op = "upload"
    /\ can_write(brochures, cl, {})
    /\ brochures' = [brochures EXCEPT
          !.rows = clear_defaults(@, brochures.reqs[cl].cleared)
                     \cup {[id |-> brochures.reqs[cl].id,
                            is_default |-> brochures.reqs[cl].is_default]},
          !.reqs[cl] = Ready]
    /\ UNCHANGED <<kind, trackers, listings, web, now, edits, sess, sweep, last, mail>>

\* POST /brochures/set-default/<id>, first statement: the UPDATE that clears
\* every row's flag
set_default_clears(cl, id) ==
    /\ brochures.reqs[cl].op = "none"
    /\ can_write(brochures, cl, BrochureIds(brochures))
    /\ brochures' = [brochures EXCEPT
          !.reqs[cl] = [op |-> "set_default", id |-> id, is_default |-> TRUE,
                        cleared |-> BrochureIds(brochures), wrote |-> TRUE]]
    /\ UNCHANGED <<kind, trackers, listings, web, now, edits, sess, sweep, last, mail>>

\* the rest of set_default: get_or_404 aborts the request for an unknown id and
\* the transaction is rolled back with the session; otherwise the row's flag is
\* set and the transaction commits
set_default_ends(cl) ==
    /\ brochures.reqs[cl].op = "set_default"
    /\ can_write(brochures, cl, {brochures.reqs[cl].id})
    /\ brochures' = [brochures EXCEPT
          !.rows = IF brochures.reqs[cl].id \in BrochureIds(brochures)
                   THEN {IF r.id = brochures.reqs[cl].id
                         THEN [r EXCEPT !.is_default = TRUE] ELSE r :
                            r \in clear_defaults(@, brochures.reqs[cl].cleared)}
                   ELSE @,
          !.reqs[cl] = Ready]
    /\ UNCHANGED <<kind, trackers, listings, web, now, edits, sess, sweep, last, mail>>

\* POST /brochures/delete/<id> of an existing brochure
delete_brochure(cl, id) ==
    /\ brochures.reqs[cl].op = "none"
    /\ id \in BrochureIds(brochures)
    /\ \A other \in Clients \ {cl} :
          IF brochures.backend = "sqlite" THEN ~brochures.reqs[other].wrote
          ELSE id \notin brochures.reqs[other].cleared
    /\ brochures' = [brochures EXCEPT !.rows = {r \in @ : r.id # id}]
    /\ UNCHANGED <<kind, trackers, listings, web, now, edits, sess, sweep, last, mail>>

NextBrochure ==
    \/ \E cl \in Clients, is_default \in BOOLEAN : upload_clears(cl, is_default)
    \/ \E cl \in Clients : upload_commits(cl)
    \/ \E cl \in Clients, id \in 1..MaxBrochures + 1 : set_default_clears(cl, id)
    \/ \E cl \in Clients : set_default_ends(cl)
    \/ \E cl \in Clients, id \in 1..MaxBrochures : delete_brochure(cl, id)

SpecBrochure == InitBrochure /\ [][NextBrochure]_vars

(* --------------------------- Facebook leads --------------------------- *)

\* leads in one feed, feeds in one scan
MaxLeads == 2
MaxSources == 2

Lead(name, phone) == [name |-> name, phone |-> phone]

\* the leads a feed can carry: one without an author name, one with a name and
\* a phone number
Leads == {Lead("", ""), Lead("Asha", "98")}

Feeds == SeqsUpTo(Leads, MaxLeads)

\* name = author_name or 'Facebook Lead' of _process_comment_or_post
lead_name(author) == IF author = "" THEN "Facebook Lead" ELSE author

\* the entry points that save the leads of feeds, and the number of feeds each
\* one scans
ScanRoutes == {"fetch_comments", "fetch_groups", "scan_source", "scan_all_sources",
               "auto_fetch_fb_enquiries"}

OneFeed == {"fetch_comments", "scan_source"}

\* the Contact rows the session sees, committed or added, and the number saved
Saving(contacts, saved) == [contacts |-> contacts, saved |-> saved]

\* query(Contact).filter_by(company_name=name).first(): the position of the
\* first such row, 0 for None
first_named(contacts, name) ==
    IF \E i \in 1..Len(contacts) : contacts[i].company_name = name
    THEN CHOOSE i \in 1..Len(contacts) :
            /\ contacts[i].company_name = name
            /\ \A j \in 1..(i - 1) : contacts[j].company_name # name
    ELSE 0

\* a Contact is added for every named lead
save_contact_always(st, name, phone) ==
    IF name = "" THEN st
    ELSE Saving(Append(st.contacts, [company_name |-> name, phone |-> phone]), st.saved + 1)

\* _save_contact_from_lead(name, phone, ..)
save_contact_from_lead(st, name, phone) ==
    IF name = "" THEN st
    ELSE IF first_named(st.contacts, name) # 0
    THEN Saving([st.contacts EXCEPT ![first_named(st.contacts, name)].phone =
                                       IF phone # "" /\ @ = "" THEN phone ELSE @],
                st.saved)
    ELSE Saving(Append(st.contacts, [company_name |-> name, phone |-> phone]), st.saved + 1)

RECURSIVE save_feed(_, _, _)
\* `for lead in leads:` of the scans (named = TRUE: the name went through
\* _process_comment_or_post) and `for idx in selected:` of save_leads
save_feed(st, feed, named) ==
    IF feed = <<>> THEN st
    ELSE save_feed(save_contact_from_lead(st,
                                          IF named THEN lead_name(Head(feed).name)
                                          ELSE Head(feed).name,
                                          Head(feed).phone),
                   Tail(feed), named)

RECURSIVE save_feeds(_, _)
\* `for source in sources:` / `for group_id in config['group_ids']:`
save_feeds(st, feeds) ==
    IF feeds = <<>> THEN st
    ELSE save_feeds(save_feed(st, Head(feeds), TRUE), Tail(feeds))

\* Contacts with pairwise distinct company names
StartContacts ==
    { <<>>,
      <<[company_name |-> "Asha", phone |-> ""]>>,
      <<[company_name |-> "Facebook Lead", phone |-> "98"]>>,
      <<[company_name |-> "Binu", phone |-> "98"], [company_name |-> "Asha", phone |-> ""]>> }

InitLeads ==
    /\ brochures = NoBrochures
    /\ kind = "deal"
    /\ trackers = [t \in TrackerIds |-> Gone]
    /\ listings = {}
    /\ web = [pf \in KnownPlatforms(kind) |-> Page("ok", <<>>)]
    /\ now = 0
    /\ edits = 0
    /\ sess = FreshSession
    /\ sweep = Idle
    /\ last = Other
    /\ \E cs \in StartContacts : mail = [contacts |-> cs]

\* one of the scans, from the feeds it fetched to its commit
scan(route, feeds) ==
    /\ route \in OneFeed => Len(feeds) = 1
    /\ mail' = [contacts |-> save_feeds(Saving(mail.contacts, 0), feeds).contacts]
    /\ last' = [op |-> route, feeds |-> feeds,
                saved |-> save_feeds(Saving(mail.contacts, 0), feeds).saved,
                rescan |-> last.op = route /\ last.feeds = feeds]
    /\ UNCHANGED <<brochures, kind, trackers, listings, web, now, edits, sess, sweep>>

\* POST /facebook/save-leads with the selected leads of the form
save_leads(selected) ==
    /\ selected # <<>>
    /\ mail' = [contacts |-> save_feed(Saving(mail.contacts, 0), selected, FALSE).contacts]
    /\ last' = [op |-> "save_leads", feeds |-> <<selected>>,
                saved |-> save_feed(Saving(mail.contacts, 0), selected, FALSE).saved,
                rescan |-> last.op = "save_leads" /\ last.feeds = <<selected>>]
    /\ UNCHANGED <<brochures, kind, trackers, listings, web, now, edits, sess, sweep>>

NextLeads ==
    \/ \E route \in ScanRoutes, feeds \in SeqsUpTo(Feeds, MaxSources) : scan(route, feeds)
    \/ \E selected \in Feeds : save_leads(selected)

SpecLeads == InitLeads /\ [][NextLeads]_vars

(* ------------------------------ properties ---------------------------- *)

\* the last handler was a tracker check that returned to its caller
Returned == last.op \in CheckOps /\ last.why = "ok"

\* C1: no two persisted Listings with the same tracker_id have the same url,
\* after any sequence of checks (single or in a sweep), result views and edits
C1_DedupInvariant ==
    \A r1 \in listings : \A r2 \in listings :
        (r1.tracker_id = r2.tracker_id /\ r1.url = r2.url) => r1.id = r2.id

\* C2: a check that directly follows a returned check of the same tracker, with
\* the settings unchanged and every adapter returning what it returned before,
\* persists no Listing and returns the empty list
C2_RerunPersistsNothing ==
    (Returned /\ last.rerun) => last.new = <<>>

\* the candidates of the tracker's only platform have non-empty, pairwise
\* distinct urls (after .strip())
DistinctCandidates(t) ==
    /\ Len(trackers[t].platforms) = 1
    /\ trackers[t].platforms[1] \in KnownPlatforms(kind)
    /\ web[trackers[t].platforms[1]].status = "ok"
    /\ web[trackers[t].platforms[1]].items # <<>>
    /\ \A i \in DOMAIN web[trackers[t].platforms[1]].items :
          /\ ~IsEmptyUrl(strip(web[trackers[t].platforms[1]].items[i].url))
          /\ \A j \in DOMAIN web[trackers[t].platforms[1]].items :
                strip(web[trackers[t].platforms[1]].items[i].url)
                  = strip(web[trackers[t].platforms[1]].items[j].url) => i = j

\* a tracker with a notification target and no price range
PlainTarget(t) ==
    /\ trackers[t].whatsapp_number # ""
    /\ ~truthy(trackers[t].min_price)
    /\ ~truthy(trackers[t].max_price)

\* C3: for a tracker with a notification target whose adapter returns n >= 1
\* candidates with distinct unseen urls, the first check persists exactly n
\* Listings, all is_new, and dispatches one notification listing them; the
\* second check, the adapter returning the same urls, persists none and
\* dispatches no notification
C3_FirstThenSecondCheck ==
    (Returned /\ PlainTarget(last.t) /\ DistinctCandidates(last.t)) =>
        /\ last.fresh =>
              /\ Len(last.new) = Len(web[trackers[last.t].platforms[1]].items)
              /\ \A i \in DOMAIN last.new : last.new[i] \in listings /\ last.new[i].is_new
              /\ Len(last.calls) = 1
              /\ last.calls[1].shown = last.new
        /\ last.rerun => (last.new = <<>> /\ last.calls = <<>>)

\* the pages the last check's adapters met
CalledStatus == {web[last.called[i]].status : i \in DOMAIN last.called}

C5_AllOrNothing ==
    \A r \in listings : ~r.orphan

\* every check of the sweep that ended with an exception ended in an adapter
FailuresAreAdapters ==
    \A i \in DOMAIN sweep.results : sweep.results[i].why \in {"ok", "adapter"}

\* C6: in a sweep (scheduled job or /check-all) an adapter failure or an empty
\* result for one tracker does not keep the others from being checked: every
\* tracker active at sweep start has its check run
C6_SweepChecksEveryTracker ==
    (sweep.phase = "done" /\ FailuresAreAdapters) => Len(sweep.results) = Len(sweep.all)

\* C7: when the commit of T's batch raises during a sweep, every later active
\* tracker of the sweep is still checked on a usable session, and no Listing
\* of T's batch is persisted
C7_CommitFailureIsContained ==
    (sweep.phase = "done"
       /\ \E i \in DOMAIN sweep.results : sweep.results[i].why = "commit") =>
        /\ Len(sweep.results) = Len(sweep.all)
        /\ \A i \in DOMAIN sweep.results : \A j \in DOMAIN sweep.results :
              (sweep.results[i].why = "commit" /\ j > i) =>
                  sweep.results[j].why # "inactive"

\* C8: marking viewed is one-way: a Listing with is_new = false is never set
\* back to true by a results view, a check or an edit, and a repeated results
\* view changes nothing
C8_ViewedIsOneWay ==
    /\ [](\A t \in TrackerIds :
            mark_viewed(mark_viewed(listings, t), t) = mark_viewed(listings, t))
    /\ [][\A r \in listings : \A q \in listings' :
            (~r.is_new /\ q.id = r.id /\ q.tracker_id = r.tracker_id) => ~q.is_new]_vars

\* a viewed Listing is still there after a later check of its tracker
C8_Witness ==
    /\ last.op \in CheckOps
    /\ \E r \in listings : r.tracker_id = last.t /\ ~r.is_new

\* C9: the notifier dispatches nothing when the tracker has no notification
\* target or when the list of new listings is empty
C9_NothingToDispatch ==
    (last.op = "notify" /\ (trackers[last.t].whatsapp_number = "" \/ last.new = <<>>))
        => last.calls = <<>>

\* the notifier was called for a tracker with a target and an empty list
C9_Witness ==
    /\ last.op = "notify"
    /\ trackers[last.t].whatsapp_number # ""
    /\ last.new = <<>>
    /\ last.calls = <<>>

\* C10: a dispatch that fails (the transport returns failure or raises) does
\* not propagate to the caller of the check, and the Listings the check
\* committed stay persisted as committed
C10_DispatchFailureIsSwallowed ==
    (last.op \in CheckOps /\ last.calls # <<>>
       /\ last.calls[1].outcome \in {"failed", "raised"}) =>
        /\ ~last.raised
        /\ last.why = "ok"
        /\ \A i \in DOMAIN last.new : last.new[i] \in listings
        /\ sweep.phase # "idle" =>
              ~sweep.results[Len(sweep.results)].raised

\* a check committed Listings and its dispatch raised
C10_Witness ==
    /\ Returned
    /\ last.calls # <<>>
    /\ last.calls[1].outcome = "raised"
    /\ last.new # <<>>
    /\ \A i \in DOMAIN last.new : last.new[i] \in listings

\* the price filter was applied with a configured range
Filtered ==
    /\ last.op = "filter"
    /\ kind \in {"deal", "hotel"}
    /\ truthy(trackers[last.t].min_price) \/ truthy(trackers[last.t].max_price)

HasDigit(text) == \E i \in DOMAIN text : text[i] \in Digits

RECURSIVE DigitsFrom(_, _)
\* the digits of text from position i up to the first non-digit
DigitsFrom(text, i) ==
    IF i > Len(text) \/ text[i] \notin Digits THEN <<>>
    ELSE <<text[i]>> \o DigitsFrom(text, i + 1)

\* position of the first digit of a text that has one
FirstDigit(text) == CHOOSE i \in DOMAIN text : text[i] \in Digits /\ \A j \in 1..(i - 1) : text[j] \notin Digits

\* fraction digits of the first decimal run: what follows "<digits>." if a
\* digit follows the dot
FirstFraction(text) ==
    IF /\ FirstDigit(text) + Len(DigitsFrom(text, FirstDigit(text))) <= Len(text)
       /\ text[FirstDigit(text) + Len(DigitsFrom(text, FirstDigit(text)))] = "."
    THEN DigitsFrom(text, FirstDigit(text) + Len(DigitsFrom(text, FirstDigit(text))) + 1)
    ELSE <<>>

\* value of the first decimal run of the text times mult, as an integer
FirstRunValue(text, mult) ==
    IntOf(DigitsFrom(text, FirstDigit(text))) * mult
      + (IntOf(FirstFraction(text)) * mult) \div Pow10(Len(FirstFraction(text)))

\* v lies in [min, max], a bound that is not set being open
InBounds(v, lo, hi) ==
    /\ truthy(lo) => v >= lo[1]
    /\ truthy(hi) => v <= hi[1]

\* C11: for a deal tracker with a price range and a price text that contains
\* 'lakh' in any case, the price's number is multiplied by 100,000 and the
\* candidate is admitted iff the result lies in [min, max]
C11_LakhScalesBeforeRange ==
    (Filtered /\ kind = "deal" /\ has_lakh(last.text) /\ HasDigit(last.text)) =>
        (last.verdict = "admit"
           <=> InBounds(FirstRunValue(last.text, 100000),
                        trackers[last.t].min_price, trackers[last.t].max_price))

\* C12: a candidate with an empty price text is admitted, whatever min_price
\* and max_price are (deal and hotel trackers)
C12_EmptyPriceAdmitted ==
    (last.op = "filter" /\ last.text = <<>>) => last.verdict = "admit"

\* the filter met an empty price text under a configured range
C12_Witness ==
    /\ Filtered
    /\ truthy(trackers[last.t].min_price)
    /\ last.text = <<>>
    /\ last.verdict = "admit"

\* C13: with a price range configured, a candidate whose price text has no
\* digit at all is not rejected and the filter does not fail
C13_NoNumberAdmitted ==
    (Filtered /\ ~HasDigit(last.text)) => last.verdict = "admit"

\* C17: the value compared with [min, max] is the first decimal run of the
\* price text (times 100,000 under 'lakh' for deal trackers), not a value
\* built from all digits and dots of the text
C17_FirstDecimalRun ==
    (Filtered /\ HasDigit(last.text)) =>
        last.val = Some(FirstRunValue(last.text,
                                      IF kind = "deal" /\ has_lakh(last.text)
                                      THEN 100000 ELSE 1))

\* C14: every stored listing belongs to a tracker that exists: no row of the
\* listings table names a tracker whose row has been deleted.
C14_ListingsHaveTracker ==
    \A r \in listings : trackers[r.tracker_id].exists

\* the listings a notification shows
Shown(calls) == UNION {Range(calls[i].shown) : i \in 1..Len(calls)}

\* C15: a check dispatches a notification only when its commit succeeded, and
\* every listing the notification shows is a row of the checked tracker that
\* this commit inserted and that this invocation created: not a row stored
\* before, not a row left in the session by an earlier invocation, not a
\* candidate that was not stored.
C15_NotifyAfterCommit ==
    [][(last'.op \in CheckOps /\ last'.calls # <<>>) =>
         /\ last'.why = "ok"
         /\ trackers'[last'.t].last_checked = Some(now')
         /\ \A i \in 1..Len(last'.calls) : last'.calls[i].count = Len(last'.new)
         /\ Shown(last'.calls) \subseteq Range(last'.new)
         /\ \A row \in Shown(last'.calls) :
               /\ row \in listings'
               /\ row \notin listings
               /\ row.id \notin {r.id : r \in listings}
               /\ row.tracker_id = last'.t
               /\ ~row.orphan]_vars

\* a sweep's check has notified while its commit also inserted a row that an
\* earlier, failed invocation had left in the session, next to rows stored before
C15_Witness ==
    /\ last.op = "sweep_step"
    /\ last.calls # <<>>
    /\ \E r \in listings : r.orphan /\ r \notin Shown(last.calls)
    /\ Shown(last.calls) # {}

\* C16: the emails recorded as sent never exceed EMAIL_RATE_PER_HOUR within a
\* one-hour window nor EMAIL_RATE_PER_DAY within a UTC day.
C16_EmailRateLimits ==
    /\ \A a \in Hours :
          sent_between(mail.sent, a, Min(a + 1, FirstHour + MaxHours)) <= EMAIL_RATE_PER_HOUR
    /\ \A h \in Hours : sent_on_day(mail, h) <= EMAIL_RATE_PER_DAY

\* the location rule: an empty location passes; for a known state the location
\* names one of the state's cities; otherwise the location and the requested
\* city match by substring
LocationRule(location, city) ==
    \/ location = <<>>
    \/ /\ STATE_CITIES(city) # {}
       /\ \E c \in STATE_CITIES(city) : contains(unhyphen(lower_text(location)), c)
    \/ /\ STATE_CITIES(city) = {}
       /\ \/ contains(unhyphen(lower_text(location)), city)
          \/ contains(city, unhyphen(lower_text(location)))

\* C18: every listing a deal check stores, from whichever platform, satisfies
\* the location rule against the tracker's city.
C18_StoredListingsMatchLocation ==
    last.op = "locate" =>
        \A i \in 1..Len(last.stored) : LocationRule(last.stored[i].candidate, last.city)

\* C19: an adapter returns a list and never raises, for every network
\* outcome, every response shape and every tracker parameter value.
C19_AdaptersNeverRaise ==
    last.op = "scrape" => ~last.out.raised

\* C20: an adapter returns at most 30 items per call, however many items the
\* upstream response carries.
C20_AtMostThirtyItems ==
    last.op = "scrape" => last.out.count <= ItemCap

\* C21: called with a notification target and n >= 1 new listings, the
\* notifier makes exactly one transport call with one message: the message
\* itemises the first min(n, 10) listings in their order, and it carries the
\* "n - 10 more" suffix exactly when n > 10.
C21_OneCappedMessage ==
    (last.op = "notify" /\ trackers[last.t].whatsapp_number # "" /\ last.new # <<>>) =>
        /\ Len(last.calls) = 1
        /\ last.calls[1].count = Len(last.new)
        /\ last.calls[1].shown = SubSeq(last.new, 1, Min(Len(last.new), AlertPreview))
        /\ (last.calls[1].more > 0) <=> (Len(last.new) > AlertPreview)
        /\ Len(last.new) > AlertPreview => last.calls[1].more = Len(last.new) - AlertPreview

\* the notifier was called with more listings than the preview holds
C21_Witness ==
    /\ last.op = "notify"
    /\ Len(last.new) > AlertPreview
    /\ Len(last.calls) = 1
    /\ Len(last.calls[1].shown) = AlertPreview
    /\ last.calls[1].more = Len(last.new) - AlertPreview

\* C22: a results view clears is_new only on Listings of the page it renders.
C22_ClearedOnlyIfShown ==
    [][\A r \in listings :
          (r.is_new /\ [r EXCEPT !.is_new = FALSE] \in listings') =>
              (last.op = "page" /\ r.id \in last.rendered)]_vars

\* C23: no persisted Listing has an empty url; a candidate whose url is
\* missing, empty or only whitespace is never persisted by a check.
C23_NoEmptyUrlPersisted ==
    \A r \in listings : ~IsEmptyUrl(strip(r.url))

\* a check returned new Listings from a page that also carried a candidate
\* with a whitespace-only url
C23_Witness ==
    /\ Returned
    /\ last.new # <<>>
    /\ \E pf \in Range(last.called) : \E i \in 1..Len(web[pf].items) :
           IsEmptyUrl(strip(web[pf].items[i].url))
    /\ \A r \in listings : ~IsEmptyUrl(strip(r.url))

\* C24: when the scheduled sweep and an interactive check run on the same
\* tracker and both obtain the same candidate url, at most one Listing with
\* that url is persisted for the tracker (urls within the column's length, so
\* that the stored url is the candidate's).
C24_ConcurrentChecksInsertOnce ==
    \A i \in 1..Len(web[FirstPlatform(kind)].items) :
        LET u == strip(web[FirstPlatform(kind)].items[i].url)
        IN  u = truncate1000(u) =>
                Cardinality({r \in listings : r.tracker_id = Shared /\ r.url = u}) <= 1

\* C25: within one check, a url that occurs more than once in the combined
\* adapter output is persisted once and occurs once in the returned list of
\* new Listings.
C25_RepeatedUrlPersistedOnce ==
    Returned =>
        \A i \in 1..Len(last.new) : \A j \in 1..Len(last.new) :
            last.new[i].url = last.new[j].url => i = j

\* C26: the url stored on a persisted Listing is the url the dedup lookup
\* compares for its candidate (the stripped candidate url), also for urls
\* longer than the column limit.
C26_StoredUrlIsLookupUrl ==
    Returned =>
        \A i \in 1..Len(last.new) :
            \E pf \in Range(last.called) : \E k \in 1..Len(web[pf].items) :
                last.new[i].url = strip(web[pf].items[k].url)

\* C27: every MessageLog is committed as 'pending' before the send attempt and
\* changes status at most once, to 'sent' or 'failed', after the attempt; in
\* every state sent_at is set iff the status is 'sent'.
C27_LogLifecycle ==
    /\ [](\A i \in 1..Len(mail.logs) :
            /\ mail.logs[i].status \in {"pending", "sent", "failed"}
            /\ (mail.logs[i].sent_at # None) <=> (mail.logs[i].status = "sent"))
    /\ [](mail.job.pc = "sending" =>
            /\ mail.logs # <<>>
            /\ mail.logs[Len(mail.logs)].status = "pending"
            /\ mail.logs[Len(mail.logs)].contact_id = Head(mail.job.todo))
    /\ [][/\ Len(mail.logs') >= Len(mail.logs)
          /\ \A i \in 1..Len(mail.logs) :
                mail.logs'[i] # mail.logs[i] =>
                    /\ mail.logs[i].status = "pending"
                    /\ mail.logs'[i].status \in {"sent", "failed"}
                    /\ mail.job.pc = "sending"
                    /\ i = Len(mail.logs)]_vars

\* one log was sent and one failed
C27_Witness ==
    /\ Len(mail.logs) = 2
    /\ mail.logs[1].status = "failed" /\ mail.logs[1].sent_at = None
    /\ mail.logs[2].status = "sent" /\ mail.logs[2].sent_at # None

\* C28: a send operation changes a Contact's status only from 'new' to
\* 'contacted' and only after a successful send to that contact, also when the
\* status was edited while the batch was in progress.
C28_OnlyNewBecomesContacted ==
    [][last'.op # "edit_contact" =>
          \A c \in ContactIds :
              mail'.contacts[c] # mail.contacts[c] =>
                  /\ last'.op = "send_returns" /\ last'.c = c /\ last'.success
                  /\ mail.contacts[c] = "new"
                  /\ mail'.contacts[c] = "contacted"]_vars

\* C29: after any sequence and interleaving of brochure upload, set-default
\* and delete requests, also a set-default for an unknown id, at most one
\* Brochure has is_default = true.
C29_AtMostOneDefault ==
    Cardinality({r \in brochures.rows : r.is_default}) <= 1

\* C30: starting from Contacts with pairwise distinct company names, after any
\* sequence of Facebook scans and lead saves no two Contacts share a
\* company_name, and a scan repeated on feeds that return the same leads
\* creates no Contact.
C30_NoDuplicateContacts ==
    /\ \A i \in 1..Len(mail.contacts) : \A j \in 1..Len(mail.contacts) :
          mail.contacts[i].company_name = mail.contacts[j].company_name => i = j
    /\ (last.op \in ScanRoutes \cup {"save_leads"} /\ last.rescan) => last.saved = 0

\* a scan whose feeds named two authors was repeated
C30_Witness ==
    /\ last.op \in ScanRoutes
    /\ last.rescan
    /\ last.saved = 0
    /\ \E f \in Range(last.feeds) :
          Len(f) = 2 /\ f[1].name # "" /\ f[2].name = f[1].name
    /\ Len(mail.contacts) >= 2

====
